---- MODULE Spec2Model ----
(***************************************************************************)
(* Model of the subscriber engine of the Sailhouse TypeScript client       *)
(* (class SailhouseSubscriber in src/src/index.ts) together with the       *)
(* transport operations it calls (SailhouseClient.pull / ackEvent and      *)
(* Event.ack), and of the push subscription signature verifier (class     *)
(* PushSubscriptionVerifier in push-subscriptions.ts).                     *)
(*                                                                         *)
(* JavaScript runs every continuation of an async function to its next     *)
(* await without interruption, so one action of the model is one such      *)
(* run: the public call (subscribe / start / stop) or the resumption of a  *)
(* worker loop after the promise it awaited has settled.                   *)
(***************************************************************************)
EXTENDS Integers, Sequences, FiniteSets, Bags, TLC

\* ------------------------------------------------------------------ bounds
MaxSubscribers == 2   \* subscribe() calls explored
MaxProcessors == 2    \* largest perSubscriptionProcessors explored
MaxStarts == 2        \* start() calls that pass the running guard
MaxLoops == 2         \* worker loops launched over the engine's lifetime
MaxIdleStops == 2     \* stop() calls counted while the engine is not running
NumEvents == 2        \* events the service hands out in all
Epoch == 1000         \* earliest clock reading explored, in seconds
MaxTolerance == 1     \* largest tolerance option explored, in seconds
DigestBytes == 2      \* bytes of a signature digest

\* the topic/subscription names registrations are made with
Topics == {"t"}
Subscriptions == {"s"}

\* -------------------------------------------------------------- constants
NoContentDelayMs == 1000   \* this._delay(1000) of the else branch
PullErrorDelayMs == 1000   \* this._delay(1000) of the outer catch
DefaultTolerance == 300    \* options.tolerance ?? 300

VARIABLES
  subscribers,                \* SailhouseSubscriber._subscribers
  running,                    \* SailhouseSubscriber._running
  perSubscriptionProcessors,  \* SailhouseSubscriber._perSubscriptionProcessors
  activeLoops,                \* SailhouseSubscriber._activeLoops (loop ids)
  loops,                      \* every _runSubscriberLoop invocation made so far
  startCalls,                 \* start() calls that passed the running guard
  startError,                 \* what the latest start() call threw synchronously
  delivered,                  \* service side: events handed out per topic/subscription
  handled,                    \* bag of handler invocations
  results,                    \* how each handler invocation completed
  acked,                      \* bag of acknowledge requests sent to the service
  reported,                   \* console.error reports
  idleStops                   \* stop() calls counted while the engine was not running

VARIABLES
  verifier,                   \* the PushSubscriptionVerifier instance
  clock,                      \* Date.now(), in milliseconds
  lastCall,                   \* the latest call made on the verifier
  outcome,                    \* how that call ended: its result or its error
  returned,                   \* the components a parseSignatureHeader call returned
  hmacComputed                \* whether that call computed an HMAC

engineVars == <<subscribers, running, perSubscriptionProcessors, activeLoops,
                loops, startCalls, startError, delivered, handled, results,
                acked, reported, idleStops>>

verifierVars == <<verifier, clock, lastCall, outcome, returned, hmacComputed>>

vars == <<subscribers, running, perSubscriptionProcessors, activeLoops, loops,
          startCalls, startError, delivered, handled, results, acked, reported,
          idleStops,
          verifier, clock, lastCall, outcome, returned, hmacComputed>>

\* ----------------------------------------------------------------- values
\* the local variable `event` of a loop when it holds no event
NoEvent == [id |-> 0, topic |-> "", subscription |-> ""]

\* new Event(event, topic, subscription, client): the event is bound to the
\* topic and subscription it was pulled from
Event(id, topic, subscription) ==
  [id |-> id, topic |-> topic, subscription |-> subscription]

\* SailhouseClient.ackEvent: the request names topic, subscription, event id
ackEvent(topic, subscription, eventId) ==
  [topic |-> topic, subscription |-> subscription, id |-> eventId]

\* Event.ack: acknowledges with the event's own topic, subscription and id
EventAck(ev) == ackEvent(ev.topic, ev.subscription, ev.id)

\* the console.error of the inner catch (handler or acknowledge failure)
HandlerErrorReport(lp) ==
  [kind |-> "handling", id |-> lp.event.id,
   topic |-> lp.topic, subscription |-> lp.subscription]

\* the console.error of the outer catch (pull failure)
PullErrorReport(lp) ==
  [kind |-> "pulling", id |-> 0,
   topic |-> lp.topic, subscription |-> lp.subscription]

\* ------------------------------------------------------- the worker loop
\* variant: the loop never looks at the flag
WhileTrue(lp, r) ==
  [lp EXCEPT !.pc = "pulling", !.event = NoEvent, !.delay = 0]

\* `while (this._running)` followed at once by the pull of the loop body:
\* the loop either issues the next pull or returns
WhileRunning(lp, r) ==
  IF r THEN [lp EXCEPT !.pc = "pulling", !.event = NoEvent, !.delay = 0]
       ELSE [lp EXCEPT !.pc = "done", !.event = NoEvent, !.delay = 0]

\* variant: every loop calls the handler of the first registration
runSubscriberLoopFirstHandler(subscriber, r) ==
  WhileRunning([topic |-> subscriber.topic,
                subscription |-> subscriber.subscription,
                handler |-> 1,
                pc |-> "init", event |-> NoEvent, delay |-> 0], r)

\* the call this._runSubscriberLoop(subscriber): destructures the
\* registration and runs to the first await
runSubscriberLoop(subscriber, r) ==
  WhileRunning([topic |-> subscriber.topic,
                subscription |-> subscriber.subscription,
                handler |-> subscriber.handler,
                pc |-> "init", event |-> NoEvent, delay |-> 0], r)

\* variant: a loop resumed after stop() drops the event and returns
OnPullEventUnlessStopped(lp, ev) ==
  IF running
    THEN [loop |-> [lp EXCEPT !.pc = "handling", !.event = ev],
          calls |-> SetToBag({[handler |-> lp.handler, event |-> ev]}),
          acks |-> EmptyBag,
          reports |-> {}]
    ELSE [loop |-> [lp EXCEPT !.pc = "done"],
          calls |-> EmptyBag,
          acks |-> EmptyBag,
          reports |-> {}]

\* the pull resolved with an event: `if (event)` is taken and the handler
\* is invoked with that event
OnPullEvent(lp, ev) ==
  [loop |-> [lp EXCEPT !.pc = "handling", !.event = ev],
   calls |-> SetToBag({[handler |-> lp.handler, event |-> ev]}),
   acks |-> EmptyBag,
   reports |-> {}]

\* variant: no content is logged like a pull failure
OnPullNoContentReported(lp) ==
  [loop |-> [lp EXCEPT !.pc = "backoff", !.event = NoEvent,
                       !.delay = NoContentDelayMs],
   calls |-> EmptyBag,
   acks |-> EmptyBag,
   reports |-> {PullErrorReport(lp)}]

\* the pull resolved with null (204 no content): else branch, _delay(1000)
OnPullNoContent(lp) ==
  [loop |-> [lp EXCEPT !.pc = "backoff", !.event = NoEvent,
                       !.delay = NoContentDelayMs],
   calls |-> EmptyBag,
   acks |-> EmptyBag,
   reports |-> {}]

\* variant: a pull failure ends the loop
OnPullErrorFatal(lp) ==
  [loop |-> [lp EXCEPT !.pc = "done", !.event = NoEvent],
   calls |-> EmptyBag,
   acks |-> EmptyBag,
   reports |-> {PullErrorReport(lp)}]

\* the pull rejected: outer catch, console.error, _delay(1000)
OnPullError(lp) ==
  [loop |-> [lp EXCEPT !.pc = "errorBackoff", !.event = NoEvent,
                       !.delay = PullErrorDelayMs],
   calls |-> EmptyBag,
   acks |-> EmptyBag,
   reports |-> {PullErrorReport(lp)}]

\* variant: the acknowledge is sent twice
OnHandlerSuccessAckTwice(lp) ==
  [loop |-> [lp EXCEPT !.pc = "acking"],
   calls |-> EmptyBag,
   acks |-> SetToBag({EventAck(lp.event)}) (+) SetToBag({EventAck(lp.event)}),
   reports |-> {}]

\* variant: event.ack() is called without await, the loop moves on
OnHandlerSuccessNoAwait(lp) ==
  [loop |-> WhileRunning(lp, running),
   calls |-> EmptyBag,
   acks |-> SetToBag({EventAck(lp.event)}),
   reports |-> {}]

\* the handler's promise fulfilled: event.ack() is called and awaited
OnHandlerSuccess(lp) ==
  [loop |-> [lp EXCEPT !.pc = "acking"],
   calls |-> EmptyBag,
   acks |-> SetToBag({EventAck(lp.event)}),
   reports |-> {}]

\* variant: the acknowledge sits in a finally block and is sent on failure too
OnHandlerErrorAcks(lp, r) ==
  [loop |-> WhileRunning(lp, r),
   calls |-> EmptyBag,
   acks |-> SetToBag({EventAck(lp.event)}),
   reports |-> {HandlerErrorReport(lp)}]

\* variant: a handler failure escapes the loop
OnHandlerErrorExits(lp, r) ==
  [loop |-> [lp EXCEPT !.pc = "done", !.event = NoEvent],
   calls |-> EmptyBag,
   acks |-> EmptyBag,
   reports |-> {HandlerErrorReport(lp)}]

\* the handler threw or rejected: inner catch, console.error, next iteration
OnHandlerError(lp, r) ==
  [loop |-> WhileRunning(lp, r),
   calls |-> EmptyBag,
   acks |-> EmptyBag,
   reports |-> {HandlerErrorReport(lp)}]

\* variant: the loop returns after its first acknowledged event
OnAckSuccessExits(lp, r) ==
  [loop |-> [lp EXCEPT !.pc = "done", !.event = NoEvent],
   calls |-> EmptyBag,
   acks |-> EmptyBag,
   reports |-> {}]

\* variant: the loop waits the delay after every cycle
OnAckSuccessThrottled(lp, r) ==
  [loop |-> [lp EXCEPT !.pc = "backoff", !.event = NoEvent,
                       !.delay = NoContentDelayMs],
   calls |-> EmptyBag,
   acks |-> EmptyBag,
   reports |-> {}]

\* the acknowledge resolved: next iteration
OnAckSuccess(lp, r) ==
  [loop |-> WhileRunning(lp, r),
   calls |-> EmptyBag,
   acks |-> EmptyBag,
   reports |-> {}]

\* variant: a rejected acknowledge escapes the loop
OnAckErrorExits(lp, r) ==
  [loop |-> [lp EXCEPT !.pc = "done", !.event = NoEvent],
   calls |-> EmptyBag,
   acks |-> EmptyBag,
   reports |-> {HandlerErrorReport(lp)}]

\* variant: a rejected acknowledge is sent again
OnAckErrorRetries(lp, r) ==
  [loop |-> lp,
   calls |-> EmptyBag,
   acks |-> SetToBag({EventAck(lp.event)}),
   reports |-> {HandlerErrorReport(lp)}]

\* the acknowledge rejected: same inner catch as a handler failure
OnAckError(lp, r) ==
  [loop |-> WhileRunning(lp, r),
   calls |-> EmptyBag,
   acks |-> EmptyBag,
   reports |-> {HandlerErrorReport(lp)}]

\* the backoff timer fired: next iteration
OnDelayElapsed(lp, r) ==
  [loop |-> WhileRunning(lp, r),
   calls |-> EmptyBag,
   acks |-> EmptyBag,
   reports |-> {}]

\* ------------------------------------------------------------ start calls
\* variant: Promise.race, the call resolves with the first loop to return
PromiseRace(call, lps) ==
  IF call.status = "pending" /\ \E l \in call.loops : lps[l].pc = "done"
    THEN [call EXCEPT !.status = "resolved"]
    ELSE call

\* await Promise.all(this._activeLoops): a pending start() call resolves
\* when every loop it launched has returned
PromiseAll(call, lps) ==
  IF call.status = "pending" /\ \A l \in call.loops : lps[l].pc = "done"
    THEN [call EXCEPT !.status = "resolved"]
    ELSE call

Settle(calls, lps) == [i \in DOMAIN calls |-> PromiseAll(calls[i], lps)]

\* new Array(n): throws RangeError for a negative length
ArrayLengthValid(n) == n >= 0

RECURSIVE LaunchOnePerSubscriber(_, _, _)
\* variant: one loop per registration whatever the option says
LaunchOnePerSubscriber(subs, n, r) ==
  IF subs = <<>> THEN <<>>
  ELSE <<runSubscriberLoop(Head(subs), r)>>
         \o LaunchOnePerSubscriber(Tail(subs), n, r)

\* subscribers.flatMap(s => new Array(n).fill(0).map(() => loop(s))):
\* n loops per registration, in registration order
RECURSIVE LaunchLoops(_, _, _)
LaunchLoops(subs, n, r) ==
  IF subs = <<>> THEN <<>>
  ELSE [i \in 1..n |-> runSubscriberLoop(Head(subs), r)]
         \o LaunchLoops(Tail(subs), n, r)

\* events the service has handed out so far, over all topic/subscriptions
RECURSIVE Sum(_, _)
Sum(f, S) ==
  IF S = {} THEN 0
  ELSE LET x == CHOOSE y \in S : TRUE IN f[x] + Sum(f, S \ {x})

HandedOut == Sum(delivered, DOMAIN delivered)

\* the options a SailhouseSubscriber can be constructed with: none, or a
\* perSubscriptionProcessors value
SubscriberOptions ==
  {[given |-> FALSE, perSubscriptionProcessors |-> 0]}
    \cup {[given |-> TRUE, perSubscriptionProcessors |-> n] :
            n \in -1..MaxProcessors}

\* constructor: this._perSubscriptionProcessors =
\* opts.perSubscriptionProcessors ?? 1
Constructor(opts) ==
  IF opts.given THEN opts.perSubscriptionProcessors ELSE 1

\* the topics of the engine whose registrations are on different topics
WideTopics == Topics \cup {"u"}

\* ------------------------------------------- strings of the verifier
\* a string is the sequence of its characters
Digits == <<"0", "1", "2", "3", "4", "5", "6", "7", "8", "9">>
HexDigits == Digits \o <<"a", "b", "c", "d", "e", "f">>
UpperHexDigits == Digits \o <<"A", "B", "C", "D", "E", "F">>
OtherChars == <<"g", "x", "y", "t", "v", "=", ",", ".", "-", "+", " ">>
Whitespace == {" "}

\* the value `undefined` where a string is expected
Undefined == <<"undefined">>

\* !value for a string or undefined
Falsy(value) == value = Undefined \/ value = <<>>

IndexIn(c, chars) ==
  IF \E i \in DOMAIN chars : chars[i] = c
    THEN CHOOSE i \in DOMAIN chars : chars[i] = c
    ELSE 0

IsDigit(c) == IndexIn(c, Digits) > 0

\* `${n}`: the decimal digits of an integer
RECURSIVE NumberToString(_)
NumberToString(n) ==
  IF n < 0 THEN <<"-">> \o NumberToString(-n)
  ELSE IF n < 10 THEN <<Digits[n + 1]>>
  ELSE NumberToString(n \div 10) \o <<Digits[(n % 10) + 1]>>

\* String.prototype.trim
RECURSIVE TrimStart(_)
TrimStart(s) ==
  IF s # <<>> /\ Head(s) \in Whitespace THEN TrimStart(Tail(s)) ELSE s

RECURSIVE TrimEnd(_)
TrimEnd(s) ==
  IF s # <<>> /\ s[Len(s)] \in Whitespace
    THEN TrimEnd(SubSeq(s, 1, Len(s) - 1))
    ELSE s

\* variant: only the whitespace before the element is removed
TrimStartOnly(s) == TrimStart(s)

\* element.trim()
Trim(s) == TrimEnd(TrimStart(s))

\* s.split(sep) for a one-character separator: every part, in order
RECURSIVE Split(_, _)
Split(s, sep) ==
  IF \A i \in DOMAIN s : s[i] # sep THEN <<s>>
  ELSE LET i == CHOOSE j \in DOMAIN s :
                  s[j] = sep /\ \A k \in 1..(j - 1) : s[k] # sep
       IN <<SubSeq(s, 1, i - 1)>> \o Split(SubSeq(s, i + 1, Len(s)), sep)

\* the result of parseInt: NaN or a number
NaN == [nan |-> TRUE, value |-> 0]
Number(n) == [nan |-> FALSE, value |-> n]

RECURSIVE LeadingDigits(_)
LeadingDigits(s) ==
  IF s # <<>> /\ IsDigit(Head(s))
    THEN <<Head(s)>> \o LeadingDigits(Tail(s))
    ELSE <<>>

RECURSIVE DecimalValue(_)
DecimalValue(ds) ==
  IF ds = <<>> THEN 0
  ELSE DecimalValue(SubSeq(ds, 1, Len(ds) - 1)) * 10
         + (IndexIn(ds[Len(ds)], Digits) - 1)

\* parseInt(value, 10): leading whitespace, an optional sign, then the
\* longest run of digits; whatever follows is ignored
parseInt(value) ==
  LET s == TrimStart(value)
      signed == s # <<>> /\ Head(s) \in {"-", "+"}
      ds == LeadingDigits(IF signed THEN Tail(s) ELSE s)
  IN IF ds = <<>> THEN NaN
     ELSE IF signed /\ Head(s) = "-" THEN Number(0 - DecimalValue(ds))
     ELSE Number(DecimalValue(ds))

\* ------------------------------------------------ digests of the verifier
\* the value of a hexadecimal digit of either case, -1 for any other
\* character
HexValue(c) ==
  IF IndexIn(c, HexDigits) > 0 THEN IndexIn(c, HexDigits) - 1
  ELSE IF IndexIn(c, UpperHexDigits) > 0 THEN IndexIn(c, UpperHexDigits) - 1
  ELSE -1

\* Buffer.from(s, "hex"): one byte per pair of hexadecimal digits, stopping
\* at the first pair that is not one; an odd last character is dropped
RECURSIVE BufferFromHex(_)
BufferFromHex(s) ==
  IF Len(s) < 2 \/ HexValue(s[1]) < 0 \/ HexValue(s[2]) < 0 THEN <<>>
  ELSE <<HexValue(s[1]) * 16 + HexValue(s[2])>>
         \o BufferFromHex(SubSeq(s, 3, Len(s)))

\* digest("hex"): the bytes of a digest as lower-case hexadecimal digits
RECURSIVE ToHex(_, _)
ToHex(n, len) ==
  IF len = 0 THEN <<>>
  ELSE ToHex(n \div 16, len - 1) \o <<HexDigits[(n % 16) + 1]>>

\* the number of a character
CharCode(c) == IndexIn(c, UpperHexDigits \o SubSeq(HexDigits, 11, 16) \o OtherChars)

\* the values of a digest of DigestBytes bytes
DigestSpace == 256 ^ DigestBytes

RECURSIVE Absorb(_, _)
Absorb(h, s) ==
  IF s = <<>> THEN h
  ELSE Absorb((h * 37 + CharCode(Head(s)) + 1) % DigestSpace, Tail(s))

\* createHmac("sha256", key).update(data).digest("hex"): a keyed digest of
\* fixed length, a function of key and data
Hmac(key, data) ==
  ToHex(Absorb(Absorb(Absorb(17, key), <<"=">>), data), 2 * DigestBytes)

\* variant: only the first byte of the two digests is compared
constantTimeEqualFirstByte(expected, actual) ==
  LET a == BufferFromHex(expected)
      b == BufferFromHex(actual)
  IN a # <<>> /\ b # <<>> /\ a[1] = b[1]

\* constantTimeEqual: timingSafeEqual on the decoded digests; it throws for
\* buffers of different length, which the catch turns into false
constantTimeEqual(expected, actual) ==
  LET a == BufferFromHex(expected)
      b == BufferFromHex(actual)
  IN IF Len(a) # Len(b) THEN FALSE ELSE a = b

\* calculateSignature on an instance whose this.secret is secret: HMAC of
\* `${timestamp}.${body}`
calculateSignatureWith(secret, timestamp, body) ==
  Hmac(secret, NumberToString(timestamp) \o <<".">> \o body)

\* calculateSignature on the verifier
calculateSignature(timestamp, body) ==
  calculateSignatureWith(verifier.secret, timestamp, body)

\* --------------------------------------------- the checks of the verifier
\* what parseSignatureHeader throws or returns
Failure(code) ==
  [ok |-> FALSE, code |-> code, timestamp |-> 0, signature |-> <<>>]

SignatureComponents(timestamp, signature) ==
  [ok |-> TRUE, code |-> "none", timestamp |-> timestamp,
   signature |-> signature]

\* variant: the first t element and the first v1 element are the ones
\* kept, later ones are skipped
RECURSIVE ParseElementsFirstWins(_, _, _)
ParseElementsFirstWins(elements, timestamp, signature) ==
  IF elements = <<>>
    THEN IF timestamp = <<>> \/ Falsy(signature)
           THEN Failure("INVALID_SIGNATURE_FORMAT")
           ELSE SignatureComponents(timestamp[1], signature)
    ELSE LET parts == Split(Trim(Head(elements)), "=")
             key == parts[1]
             value == IF Len(parts) >= 2 THEN parts[2] ELSE Undefined
         IN IF key = <<"t">> /\ timestamp = <<>>
              THEN IF parseInt(value).nan
                     THEN Failure("INVALID_TIMESTAMP")
                     ELSE ParseElementsFirstWins(Tail(elements),
                                                 <<parseInt(value).value>>,
                                                 signature)
            ELSE IF key = <<"v", "1">> /\ signature = Undefined
              THEN ParseElementsFirstWins(Tail(elements), timestamp, value)
            ELSE ParseElementsFirstWins(Tail(elements), timestamp, signature)

\* the for loop over the elements, then the check after it; timestamp is
\* <<>> while undefined
RECURSIVE ParseElements(_, _, _)
ParseElements(elements, timestamp, signature) ==
  IF elements = <<>>
    THEN IF timestamp = <<>> \/ Falsy(signature)
           THEN Failure("INVALID_SIGNATURE_FORMAT")
           ELSE SignatureComponents(timestamp[1], signature)
    ELSE LET parts == Split(Trim(Head(elements)), "=")
             key == parts[1]
             value == IF Len(parts) >= 2 THEN parts[2] ELSE Undefined
         IN IF key = <<"t">>
              THEN IF parseInt(value).nan
                     THEN Failure("INVALID_TIMESTAMP")
                     ELSE ParseElements(Tail(elements),
                                        <<parseInt(value).value>>, signature)
            ELSE IF key = <<"v", "1">>
              THEN ParseElements(Tail(elements), timestamp, value)
            ELSE ParseElements(Tail(elements), timestamp, signature)

\* a header value that is not a string, such as the array of values of a
\* header received twice: it has no split method
NotAString == <<"[object Array]">>

parseSignatureHeader(header) ==
  IF Falsy(header) THEN Failure("MISSING_SIGNATURE_HEADER")
  ELSE IF header = NotAString THEN Failure("TypeError")
  ELSE ParseElements(Split(header, ","), <<>>, Undefined)

\* Math.floor(Date.now() / 1000)
CurrentTime == clock \div 1000

\* variant: a timestamp as old as the tolerance is rejected
isTimestampValidStrict(timestamp, tolerance) ==
  CurrentTime - timestamp < tolerance /\ timestamp <= CurrentTime

\* variant: the tolerance applies to clock skew in both directions
isTimestampValidEitherWay(timestamp, tolerance) ==
  /\ CurrentTime - timestamp <= tolerance
  /\ timestamp - CurrentTime <= tolerance

\* variant: only the age of the timestamp is checked
isTimestampValidAgeOnly(timestamp, tolerance) ==
  CurrentTime - timestamp <= tolerance

\* isTimestampValid(timestamp, tolerance)
isTimestampValid(timestamp, tolerance) ==
  CurrentTime - timestamp <= tolerance /\ timestamp <= CurrentTime

\* the options of a call: none, or a tolerance
VerificationOptions ==
  {[given |-> FALSE, tolerance |-> 0]}
    \cup {[given |-> TRUE, tolerance |-> n] : n \in 0..MaxTolerance}

\* null passed for the options: the default {} of the parameter replaces
\* undefined only
NullOptions == [given |-> FALSE, tolerance |-> 0, null |-> TRUE]
IsNull(options) == "null" \in DOMAIN options

\* variant: a tolerance once given stays in force for later calls
ToleranceSticky(options) ==
  IF options.given THEN options.tolerance
  ELSE IF lastCall.options.given THEN lastCall.options.tolerance
  ELSE DefaultTolerance

\* const tolerance = options.tolerance ?? 300
Tolerance(options) ==
  IF options.given THEN options.tolerance ELSE DefaultTolerance

\* the codes of the PushSubscriptionVerificationError instances thrown in
\* this file
VerificationErrorCodes ==
  {"MISSING_SIGNATURE_HEADER", "INVALID_TIMESTAMP", "INVALID_SIGNATURE_FORMAT",
   "TIMESTAMP_TOO_OLD", "INVALID_SIGNATURE", "VERIFICATION_ERROR"}

\* variant: the catch block rethrows whatever it caught
CatchRethrows(error) == error

\* the catch block of verifySignature: a PushSubscriptionVerificationError
\* is rethrown, anything else is wrapped as VERIFICATION_ERROR
Catch(error) ==
  IF error \in VerificationErrorCodes THEN error ELSE "VERIFICATION_ERROR"

\* variant: the signature is compared before the timestamp is checked
verifySignatureRunComparesFirst(secret, signature, body, options) ==
  LET tolerance == Tolerance(options)
      parsed == parseSignatureHeader(signature)
  IN IF IsNull(options) THEN [outcome |-> "TypeError", hmac |-> FALSE]
     ELSE IF ~parsed.ok
       THEN [outcome |-> Catch(parsed.code), hmac |-> FALSE]
     ELSE IF ~constantTimeEqual(
                calculateSignatureWith(secret, parsed.timestamp, body),
                parsed.signature)
       THEN [outcome |-> Catch("INVALID_SIGNATURE"), hmac |-> TRUE]
     ELSE IF ~isTimestampValid(parsed.timestamp, tolerance)
       THEN [outcome |-> Catch("TIMESTAMP_TOO_OLD"), hmac |-> TRUE]
     ELSE [outcome |-> "true", hmac |-> TRUE]

\* the body of verifySignature, statement by statement: how the call ends
\* and whether it got as far as calculateSignature
verifySignatureRun(secret, signature, body, options) ==
  LET tolerance == Tolerance(options)
      parsed == parseSignatureHeader(signature)
  IN IF IsNull(options) THEN [outcome |-> "TypeError", hmac |-> FALSE]
     ELSE IF ~parsed.ok
       THEN [outcome |-> Catch(parsed.code), hmac |-> FALSE]
     ELSE IF ~isTimestampValid(parsed.timestamp, tolerance)
       THEN [outcome |-> Catch("TIMESTAMP_TOO_OLD"), hmac |-> FALSE]
     ELSE IF ~constantTimeEqual(
                calculateSignatureWith(secret, parsed.timestamp, body),
                parsed.signature)
       THEN [outcome |-> Catch("INVALID_SIGNATURE"), hmac |-> TRUE]
     ELSE [outcome |-> "true", hmac |-> TRUE]

\* verifySignature on an instance whose this.secret is secret: "true", or
\* the code of the error it throws
verifySignatureWith(secret, signature, body, options) ==
  verifySignatureRun(secret, signature, body, options).outcome

\* verifySignature on the verifier
verifySignature(signature, body, options) ==
  verifySignatureWith(verifier.secret, signature, body, options)

\* verifyPushSubscriptionSignature: new PushSubscriptionVerifier(secret),
\* whose constructor throws a plain Error for a secret that is empty or
\* missing, then verifySignature on it
verifyPushSubscriptionSignature(secret, signature, body, options) ==
  IF Falsy(secret) THEN "Error"
  ELSE verifySignatureWith(secret, signature, body, options)

\* variant: the safe function has no try/catch
verifyPushSubscriptionSignatureSafeThrows(secret, signature, body, options) ==
  verifyPushSubscriptionSignature(secret, signature, body, options)

\* verifyPushSubscriptionSignatureSafe: the result of the raising function,
\* false when it throws
verifyPushSubscriptionSignatureSafe(secret, signature, body, options) ==
  IF verifyPushSubscriptionSignature(secret, signature, body, options) = "true"
    THEN "true"
    ELSE "false"

\* no verifier has been constructed, no call made
NoVerifier == [secret |-> <<>>]

NoCall ==
  [fn |-> "none", header |-> <<>>, body |-> <<>>,
   options |-> [given |-> FALSE, tolerance |-> 0], timestamp |-> 0,
   tolerance |-> 0, seq |-> 0, before |-> [given |-> FALSE, tolerance |-> 0],
   secret |-> <<>>,
   first |-> [clock |-> 0, tolerance |-> 0, outcome |-> "none"]]

\* no parseSignatureHeader call has returned
NothingReturned == [timestamp |-> 0, signature |-> <<>>]

\* the subscriber engine after construction
EngineInit ==
  /\ subscribers = <<>>
  /\ running = FALSE
  /\ perSubscriptionProcessors \in {Constructor(o) : o \in SubscriberOptions}
  /\ activeLoops = <<>>
  /\ loops = <<>>
  /\ startCalls = <<>>
  /\ startError = "none"
  /\ delivered = [p \in WideTopics \X Subscriptions |-> 0]
  /\ handled = EmptyBag
  /\ results = {}
  /\ acked = EmptyBag
  /\ reported = {}
  /\ idleStops = 0

Init ==
  /\ EngineInit
  /\ verifier = NoVerifier
  /\ clock = Epoch * 1000
  /\ lastCall = NoCall
  /\ outcome = "none"
  /\ returned = NothingReturned
  /\ hmacComputed = FALSE

\* ---------------------------------------------------------------- actions
\* variant: a registration made while the engine runs gets its loops at once
SubscribeLaunches(topic, subscription) ==
  LET subscriber == [topic |-> topic, subscription |-> subscription,
                     handler |-> Len(subscribers) + 1]
      n == IF running /\ ArrayLengthValid(perSubscriptionProcessors)
             THEN perSubscriptionProcessors ELSE 0
      launched == LaunchLoops(<<subscriber>>, n, TRUE)
  IN /\ Len(subscribers) < MaxSubscribers
     /\ Len(loops) + Len(launched) <= MaxLoops
     /\ subscribers' = Append(subscribers, subscriber)
     /\ loops' = loops \o launched
     /\ activeLoops' = activeLoops
                         \o [i \in 1..Len(launched) |-> Len(loops) + i]
     /\ UNCHANGED <<running, perSubscriptionProcessors, startCalls,
                    startError, delivered, handled, results, acked, reported>>
     /\ UNCHANGED <<idleStops, verifierVars>>

\* subscribe(topic, subscription, handler): push onto _subscribers
Subscribe(topic, subscription) ==
  /\ Len(subscribers) < MaxSubscribers
  /\ subscribers' = Append(subscribers,
                           [topic |-> topic, subscription |-> subscription,
                            handler |-> Len(subscribers) + 1])
  /\ UNCHANGED <<running, perSubscriptionProcessors, activeLoops, loops,
                 startCalls, startError, delivered, handled, results, acked,
                 reported>>
  /\ UNCHANGED <<idleStops, verifierVars>>

\* variant: start() without the running guard launches a second set of loops
StartAgain ==
  /\ running
  /\ Len(startCalls) < MaxStarts
  /\ ArrayLengthValid(perSubscriptionProcessors)
  /\ LET launched == LaunchLoops(subscribers, perSubscriptionProcessors, TRUE)
         ids == [i \in 1..Len(launched) |-> Len(loops) + i]
     IN /\ Len(loops) + Len(launched) <= MaxLoops
        /\ loops' = loops \o launched
        /\ activeLoops' = ids
        /\ startCalls' = Settle(Append(startCalls,
                                       [status |-> "pending",
                                        loops |-> {ids[i] : i \in DOMAIN ids}]),
                                loops')
  /\ startError' = "none"
  /\ UNCHANGED <<subscribers, running, perSubscriptionProcessors, delivered,
                 handled, results, acked, reported>>
  /\ UNCHANGED <<idleStops, verifierVars>>

\* start() while _running: throws "Subscriber is already running"
StartWhileRunning ==
  /\ running
  /\ startError' = "Subscriber is already running"
  /\ UNCHANGED <<subscribers, running, perSubscriptionProcessors, activeLoops,
                 loops, startCalls, delivered, handled, results, acked,
                 reported>>
  /\ UNCHANGED <<idleStops, verifierVars>>

\* start() while not running, the creation of the loops failing
StartThrows ==
  /\ ~running
  /\ Len(startCalls) < MaxStarts
  /\ subscribers # <<>>
  /\ ~ArrayLengthValid(perSubscriptionProcessors)
  /\ running' = TRUE
  /\ startError' = "RangeError"
  /\ startCalls' = Append(startCalls, [status |-> "rejected", loops |-> {}])
  /\ UNCHANGED <<subscribers, perSubscriptionProcessors, activeLoops, loops,
                 delivered, handled, results, acked, reported>>
  /\ UNCHANGED <<idleStops, verifierVars>>

\* start() while not running: sets the flag, launches the loops (each runs
\* to its first pull) and awaits them all
Start ==
  /\ ~running
  /\ Len(startCalls) < MaxStarts
  /\ subscribers = <<>> \/ ArrayLengthValid(perSubscriptionProcessors)
  /\ LET n == IF subscribers = <<>> THEN 0 ELSE perSubscriptionProcessors
         launched == LaunchLoops(subscribers, n, TRUE)
         ids == [i \in 1..Len(launched) |-> Len(loops) + i]
     IN /\ Len(loops) + Len(launched) <= MaxLoops
        /\ running' = TRUE
        /\ loops' = loops \o launched
        /\ activeLoops' = ids
        /\ startCalls' = Settle(Append(startCalls,
                                       [status |-> "pending",
                                        loops |-> {ids[i] : i \in DOMAIN ids}]),
                                loops')
  /\ startError' = "none"
  /\ UNCHANGED <<subscribers, perSubscriptionProcessors, delivered, handled,
                 results, acked, reported>>
  /\ UNCHANGED <<idleStops, verifierVars>>

\* stop(): clears the flag
Stop ==
  /\ running' = FALSE
  /\ UNCHANGED <<subscribers, perSubscriptionProcessors, activeLoops, loops,
                 startCalls, startError, delivered, handled, results, acked,
                 reported>>
  /\ UNCHANGED <<idleStops, verifierVars>>

\* variant: stop() flips the flag
StopToggles ==
  /\ running \/ idleStops < MaxIdleStops
  /\ running' = ~running
  /\ idleStops' = IF running THEN idleStops ELSE idleStops + 1
  /\ UNCHANGED <<subscribers, perSubscriptionProcessors, activeLoops, loops,
                 startCalls, startError, delivered, handled, results, acked,
                 reported>>
  /\ UNCHANGED verifierVars

\* stop(), the calls made while the engine is not running being counted
StopCounted ==
  /\ running \/ idleStops < MaxIdleStops
  /\ running' = FALSE
  /\ idleStops' = IF running THEN idleStops ELSE idleStops + 1
  /\ UNCHANGED <<subscribers, perSubscriptionProcessors, activeLoops, loops,
                 startCalls, startError, delivered, handled, results, acked,
                 reported>>
  /\ UNCHANGED verifierVars

\* variant: the engine stops itself when a loop reports an error
ResumeFailFast(l, eff) ==
  /\ loops' = [loops EXCEPT ![l] = eff.loop]
  /\ handled' = handled (+) eff.calls
  /\ acked' = acked (+) eff.acks
  /\ reported' = reported \cup eff.reports
  /\ startCalls' = Settle(startCalls, loops')
  /\ running' = (running /\ eff.reports = {})
  /\ UNCHANGED <<subscribers, perSubscriptionProcessors, activeLoops,
                 startError>>
  /\ UNCHANGED <<idleStops, verifierVars>>

\* what a resumption of loop l does to the engine and to the call records
Resume(l, eff) ==
  /\ loops' = [loops EXCEPT ![l] = eff.loop]
  /\ handled' = handled (+) eff.calls
  /\ acked' = acked (+) eff.acks
  /\ reported' = reported \cup eff.reports
  /\ startCalls' = Settle(startCalls, loops')
  /\ UNCHANGED <<subscribers, running, perSubscriptionProcessors, activeLoops,
                 startError>>
  /\ UNCHANGED <<idleStops, verifierVars>>

\* the service answers the pull of loop l with the next event of the
\* loop's topic/subscription; each event is handed out once
PullReturnsEvent(l) ==
  LET lp == loops[l]
      p == <<lp.topic, lp.subscription>>
  IN /\ lp.pc = "pulling"
     /\ HandedOut < NumEvents
     /\ delivered' = [delivered EXCEPT ![p] = @ + 1]
     /\ Resume(l, OnPullEvent(lp, Event(delivered[p] + 1, lp.topic,
                                        lp.subscription)))
     /\ UNCHANGED results

\* the service answers the pull of loop l with 204
PullReturnsNoContent(l) ==
  /\ loops[l].pc = "pulling"
  /\ Resume(l, OnPullNoContent(loops[l]))
  /\ UNCHANGED <<delivered, results>>

\* the pull of loop l fails (network error, error status, bad body)
PullFails(l) ==
  /\ loops[l].pc = "pulling"
  /\ Resume(l, OnPullError(loops[l]))
  /\ UNCHANGED <<delivered, results>>

\* the handler invoked by loop l completes successfully
HandlerSucceeds(l) ==
  /\ loops[l].pc = "handling"
  /\ results' = results \cup {[event |-> loops[l].event, ok |-> TRUE]}
  /\ Resume(l, OnHandlerSuccess(loops[l]))
  /\ UNCHANGED delivered

\* the handler invoked by loop l throws or rejects
HandlerFails(l) ==
  /\ loops[l].pc = "handling"
  /\ results' = results \cup {[event |-> loops[l].event, ok |-> FALSE]}
  /\ Resume(l, OnHandlerError(loops[l], running))
  /\ UNCHANGED delivered

\* the acknowledge request of loop l succeeds
AckSucceeds(l) ==
  /\ loops[l].pc = "acking"
  /\ Resume(l, OnAckSuccess(loops[l], running))
  /\ UNCHANGED <<delivered, results>>

\* the acknowledge request of loop l fails
AckFails(l) ==
  /\ loops[l].pc = "acking"
  /\ Resume(l, OnAckError(loops[l], running))
  /\ UNCHANGED <<delivered, results>>

\* the backoff timer of loop l fires (the _delay of the else branch or the
\* one of the outer catch)
DelayElapses(l) ==
  /\ loops[l].pc \in {"backoff", "errorBackoff"}
  /\ Resume(l, OnDelayElapsed(loops[l], running))
  /\ UNCHANGED <<delivered, results>>

Next ==
  \/ \E t \in Topics, s \in Subscriptions : Subscribe(t, s)
  \/ StartWhileRunning
  \/ StartThrows
  \/ Start
  \/ Stop
  \/ \E l \in DOMAIN loops : PullReturnsEvent(l)
  \/ \E l \in DOMAIN loops : PullReturnsNoContent(l)
  \/ \E l \in DOMAIN loops : PullFails(l)
  \/ \E l \in DOMAIN loops : HandlerSucceeds(l)
  \/ \E l \in DOMAIN loops : HandlerFails(l)
  \/ \E l \in DOMAIN loops : AckSucceeds(l)
  \/ \E l \in DOMAIN loops : AckFails(l)
  \/ \E l \in DOMAIN loops : DelayElapses(l)

Spec == Init /\ [][Next]_vars

\* a resumption of loop l, whatever the awaited call answered
LoopStep(l) ==
  /\ l \in DOMAIN loops
  /\ \/ PullReturnsEvent(l)
     \/ PullReturnsNoContent(l)
     \/ PullFails(l)
     \/ HandlerSucceeds(l)
     \/ HandlerFails(l)
     \/ AckSucceeds(l)
     \/ AckFails(l)
     \/ DelayElapses(l)

\* a resumption of some loop
SomeLoopStep == \E l \in DOMAIN loops : LoopStep(l)

\* awaited pulls, handler calls, acknowledges and timers return: while a
\* loop awaits one, some loop is eventually resumed
FairSpec == Spec /\ WF_vars(SomeLoopStep)

\* the service answers 204 only when it has no event left to hand out
PullReturnsNoContentWhenEmpty(l) ==
  /\ HandedOut = NumEvents
  /\ PullReturnsNoContent(l)

\* a resumption of loop l when pull, handler and acknowledge all succeed
HappyLoopStep(l) ==
  /\ l \in DOMAIN loops
  /\ \/ PullReturnsEvent(l)
     \/ PullReturnsNoContentWhenEmpty(l)
     \/ HandlerSucceeds(l)
     \/ AckSucceeds(l)
     \/ DelayElapses(l)

HappyNext ==
  \/ \E t \in Topics, s \in Subscriptions : Subscribe(t, s)
  \/ StartWhileRunning
  \/ StartThrows
  \/ Start
  \/ Stop
  \/ \E l \in DOMAIN loops : PullReturnsEvent(l)
  \/ \E l \in DOMAIN loops : PullReturnsNoContentWhenEmpty(l)
  \/ \E l \in DOMAIN loops : HandlerSucceeds(l)
  \/ \E l \in DOMAIN loops : AckSucceeds(l)
  \/ \E l \in DOMAIN loops : DelayElapses(l)

\* the engine with a service, handlers and acknowledges that never fail,
\* every awaited call returning
HappySpec ==
  Init /\ [][HappyNext]_vars /\ \A l \in 1..MaxLoops : WF_vars(HappyLoopStep(l))

\* an engine constructed without options
WideInit ==
  /\ Init
  /\ perSubscriptionProcessors = Constructor(CHOOSE o \in SubscriberOptions : ~o.given)

WideNext ==
  \/ \E t \in WideTopics, s \in Subscriptions : Subscribe(t, s)
  \/ Start
  \/ Stop
  \/ \E l \in DOMAIN loops : PullReturnsEvent(l)
  \/ \E l \in DOMAIN loops : PullReturnsNoContentWhenEmpty(l)
  \/ \E l \in DOMAIN loops : HandlerSucceeds(l)
  \/ \E l \in DOMAIN loops : HandlerFails(l)
  \/ \E l \in DOMAIN loops : AckSucceeds(l)
  \/ \E l \in DOMAIN loops : AckFails(l)
  \/ \E l \in DOMAIN loops : DelayElapses(l)

\* the same engine with registrations on two topics
WideSpec == WideInit /\ [][WideNext]_vars

IdleNext ==
  \/ \E t \in Topics, s \in Subscriptions : Subscribe(t, s)
  \/ Start
  \/ StopCounted
  \/ \E l \in DOMAIN loops : PullReturnsEvent(l)
  \/ \E l \in DOMAIN loops : PullReturnsNoContentWhenEmpty(l)
  \/ \E l \in DOMAIN loops : HandlerSucceeds(l)
  \/ \E l \in DOMAIN loops : AckSucceeds(l)
  \/ \E l \in DOMAIN loops : DelayElapses(l)

\* the engine constructed without options, its stop() calls counted
IdleSpec == WideInit /\ [][IdleNext]_vars

\* ------------------------------------------------- calls on the verifier
\* the inputs the verifier is called with
Secrets == {<<"x">>, <<"y">>}
Bodies == {<<"x">>, <<"x", "y">>}
Clocks == {Epoch * 1000, Epoch * 1000 + 999, (Epoch + 1) * 1000}

Timestamps ==
  {Epoch - DefaultTolerance - 1, Epoch - DefaultTolerance}
    \cup (Epoch - MaxTolerance - 1)..(Epoch + 1)

\* the header a sender builds: t=<timestamp>,v1=<signature>
SignatureHeader(timestamp, signature) ==
  <<"t", "=">> \o NumberToString(timestamp) \o <<",", "v", "1", "=">> \o signature

\* a signature with one character replaced
TamperChars == {"0", "1", "A", "B", "C", "D", "E", "F", "g"}

Tampered(signature) ==
  {[signature EXCEPT ![i] = c] :
     i \in DOMAIN signature, c \in TamperChars} \ {signature}

\* a signature followed by one or two more characters
Extended(signature) ==
  {signature \o <<"0">>, signature \o <<"g">>, signature \o <<"g", "g">>}

\* the signatures of the headers: those of the bodies, those with one
\* character replaced and those with characters added
Signatures(timestamp) ==
  LET good == {calculateSignature(timestamp, b) : b \in Bodies}
  IN good \cup UNION {Tampered(sig) \cup Extended(sig) : sig \in good}

\* the elements of a header
TElement(value) == <<"t", "=">> \o value
VElement(value) == <<"v", "1", "=">> \o value
JoinComma(a, b) == a \o <<",">> \o b

\* an element with and without whitespace around it
Paddings == {<<>>, <<" ">>}
Padded(element) == {l \o element \o r : l \in Paddings, r \in Paddings}

\* elements whose key is neither t nor v1
UnknownElements ==
  {<<"x", "=", "y">>, <<"x", "=">>, <<"v", "=", "1">>, <<"g">>, <<>>}

\* the timestamps and the signature of the headers handed to the parser
ParseTimestamps == {0, Epoch}
ParseSignature == <<"a", "b", "c">>

\* headers with one t and one v1 element, in either order, with and
\* without whitespace around the elements and an element of unknown key
\* before, between or after them
WellFormedHeaders(timestamp, signature) ==
  LET T == Padded(TElement(NumberToString(timestamp)))
      V == Padded(VElement(signature))
      X == UNION {Padded(x) : x \in UnknownElements}
      TV == {JoinComma(a, b) : a \in T, b \in V}
              \cup {JoinComma(b, a) : a \in T, b \in V}
  IN TV \cup {JoinComma(h, x) : h \in TV, x \in X}
        \cup {JoinComma(x, h) : h \in TV, x \in X}
        \cup {JoinComma(JoinComma(a, x), b) : a \in T, x \in X, b \in V}

\* no header, or an empty one
MissingHeaders == {<<>>, Undefined}

\* headers that lack the t element, the v1 element, or both
HeadersWithoutT ==
  {VElement(ParseSignature), JoinComma(VElement(ParseSignature), <<"x", "=", "y">>)}

HeadersWithoutV1 ==
  {TElement(NumberToString(Epoch)),
   JoinComma(TElement(NumberToString(Epoch)), <<"x", "=", "y">>)}

HeadersWithNeither == {<<"g">>, <<"x", "=", "y">>, <<",">>, <<" ">>}

\* values of a t element that are not a decimal integer
NonIntegerValues ==
  {<<>>, <<"g">>, <<"x", "y">>, <<"1", "2", "g">>, <<"1", ".", "5">>}

\* headers whose t element has such a value, or no value at all
HeadersWithNonIntegerT ==
  {JoinComma(TElement(v), VElement(ParseSignature)) : v \in NonIntegerValues}
    \cup {JoinComma(<<"t">>, VElement(ParseSignature))}

\* values of a v1 element that contain '='
ValuesWithEquals == {<<"a", "b", "=", "c", "d">>, <<"a", "b", "=">>}

HeadersWithEquals ==
  {JoinComma(TElement(NumberToString(Epoch)), VElement(v)) :
     v \in ValuesWithEquals}

\* headers with two t and two v1 elements
Repeated(t1, t2, s1, s2) ==
  JoinComma(JoinComma(TElement(NumberToString(t1)),
                      TElement(NumberToString(t2))),
            JoinComma(VElement(s1), VElement(s2)))

\* the same elements, the keys alternating
Alternated(t1, t2, s1, s2) ==
  JoinComma(JoinComma(TElement(NumberToString(t1)), VElement(s1)),
            JoinComma(TElement(NumberToString(t2)), VElement(s2)))

ParseSignatures == {ParseSignature, <<"a", "b", "d">>}

RepeatedParseHeaders ==
  {Repeated(t1, t2, s1, s2) :
     t1 \in ParseTimestamps, t2 \in ParseTimestamps,
     s1 \in ParseSignatures, s2 \in ParseSignatures}
    \cup {Alternated(t1, t2, s1, s2) :
            t1 \in ParseTimestamps, t2 \in ParseTimestamps,
            s1 \in ParseSignatures, s2 \in ParseSignatures}

\* a t element without a number before, right after or at the end after
\* the valid one
HeadersWithInvalidTAmongValid ==
  {JoinComma(VElement(ParseSignature),
             JoinComma(TElement(NumberToString(Epoch)), <<"t", "=", "g">>)),
   JoinComma(TElement(NumberToString(Epoch)),
             JoinComma(<<"t", "=">>, VElement(ParseSignature))),
   JoinComma(TElement(NumberToString(Epoch)),
             JoinComma(<<"t">>, VElement(ParseSignature))),
   JoinComma(<<"t", "=", "g">>, SignatureHeader(Epoch, ParseSignature))}

\* a stale and a fresh timestamp, and the signatures of a body at each of
\* them
RepeatTimestamps == {Epoch - DefaultTolerance - 1, Epoch}

RepeatSignatures ==
  {calculateSignature(t, <<"x">>) : t \in RepeatTimestamps}

RepeatedHeaders ==
  {Repeated(t1, t2, s1, s2) :
     t1 \in RepeatTimestamps, t2 \in RepeatTimestamps,
     s1 \in RepeatSignatures, s2 \in RepeatSignatures}

MalformedHeaders ==
  MissingHeaders \cup HeadersWithoutT \cup HeadersWithoutV1
    \cup HeadersWithNeither \cup HeadersWithNonIntegerT

\* the headers handed to parseSignatureHeader
ParseHeaders ==
  UNION {WellFormedHeaders(t, ParseSignature) : t \in ParseTimestamps}
    \cup MalformedHeaders \cup HeadersWithEquals \cup {NotAString}
    \cup RepeatedParseHeaders \cup HeadersWithInvalidTAmongValid

\* the headers handed to verifySignature
Headers ==
  UNION {{SignatureHeader(t, sig) : sig \in Signatures(t)} : t \in Timestamps}
    \cup MalformedHeaders \cup {NotAString}
    \cup RepeatedHeaders \cup HeadersWithInvalidTAmongValid

\* the secrets a verifier is constructed with
BadSecrets == {<<>>, Undefined}

\* the headers handed to the convenience functions with a secret
ConvenienceHeaders(secret) ==
  {SignatureHeader(t, calculateSignatureWith(secret, t, b)) :
     t \in {Epoch - DefaultTolerance - 1, Epoch, Epoch + 2}, b \in Bodies}
    \cup {SignatureHeader(Epoch, <<"a", "b", "c", "d">>)}
    \cup MalformedHeaders \cup {NotAString}

\* a verifier constructed with a secret, at some time of day
VerifierInit ==
  /\ EngineInit
  /\ perSubscriptionProcessors = 1
  /\ verifier \in {[secret |-> secret] : secret \in Secrets}
  /\ clock \in Clocks
  /\ lastCall = NoCall
  /\ outcome = "none"
  /\ returned = NothingReturned
  /\ hmacComputed = FALSE

\* verifier.verifySignature(header, body, options), the first call
VerifySignatureCall ==
  /\ lastCall = NoCall
  /\ \E header \in Headers, body \in Bodies,
        options \in VerificationOptions \cup {NullOptions} :
       /\ lastCall' = [NoCall EXCEPT !.fn = "verifySignature",
                                     !.secret = verifier.secret,
                                     !.header = header, !.body = body,
                                     !.options = options, !.seq = 1]
       /\ outcome' = verifySignature(header, body, options)
       /\ hmacComputed' = verifySignatureRun(verifier.secret, header, body,
                                             options).hmac
  /\ UNCHANGED <<verifier, clock, returned>>
  /\ UNCHANGED engineVars

\* variant: the verifier remembers the headers it accepted and rejects
\* them when they come again
VerifyAgainRejectsReplay(options) ==
  /\ lastCall.fn = "verifySignature"
  /\ lastCall.seq = 1
  /\ lastCall' = [lastCall EXCEPT !.options = options, !.seq = 2,
                                  !.before = lastCall.options,
                                  !.first.clock = clock,
                                  !.first.outcome = outcome]
  /\ outcome' = IF outcome = "true" THEN "INVALID_SIGNATURE"
                ELSE verifySignature(lastCall.header, lastCall.body, options)
  /\ hmacComputed' = verifySignatureRun(verifier.secret, lastCall.header,
                                        lastCall.body, options).hmac
  /\ UNCHANGED <<verifier, clock, returned>>
  /\ UNCHANGED engineVars

\* a second call on the same verifier, with options of its own: the same
\* header and body are verified again
VerifyAgain(options) ==
  /\ lastCall.fn = "verifySignature"
  /\ lastCall.seq = 1
  /\ lastCall' = [lastCall EXCEPT !.options = options, !.seq = 2,
                                  !.before = lastCall.options,
                                  !.first.clock = clock,
                                  !.first.outcome = outcome]
  /\ outcome' = verifySignature(lastCall.header, lastCall.body, options)
  /\ hmacComputed' = verifySignatureRun(verifier.secret, lastCall.header,
                                        lastCall.body, options).hmac
  /\ UNCHANGED <<verifier, clock, returned>>
  /\ UNCHANGED engineVars

\* the tolerances isTimestampValid is called with
Tolerances == (-1..MaxTolerance) \cup {DefaultTolerance}

\* verifier.isTimestampValid(timestamp, tolerance)
IsTimestampValidCall ==
  /\ lastCall = NoCall
  /\ \E timestamp \in Timestamps, tolerance \in Tolerances :
       /\ lastCall' = [NoCall EXCEPT !.fn = "isTimestampValid",
                                     !.timestamp = timestamp,
                                     !.tolerance = tolerance, !.seq = 1]
       /\ outcome' = IF isTimestampValid(timestamp, tolerance) THEN "true"
                     ELSE "false"
  /\ UNCHANGED <<verifier, clock, returned, hmacComputed>>
  /\ UNCHANGED engineVars

\* the same timestamp checked again on the same verifier, at the same
\* time or later, with a tolerance of its own
IsTimestampValidAgain ==
  /\ lastCall.fn = "isTimestampValid"
  /\ lastCall.seq = 1
  /\ \E later \in Clocks, tolerance \in Tolerances :
       /\ later >= clock
       /\ clock' = later
       /\ lastCall' = [lastCall EXCEPT !.tolerance = tolerance, !.seq = 2,
                                       !.first.clock = clock,
                                       !.first.tolerance = lastCall.tolerance,
                                       !.first.outcome = outcome]
       /\ outcome' = IF isTimestampValid(lastCall.timestamp, tolerance)'
                       THEN "true" ELSE "false"
  /\ UNCHANGED <<verifier, returned, hmacComputed>>
  /\ UNCHANGED engineVars

\* verifier.parseSignatureHeader(header)
ParseSignatureHeaderCall ==
  /\ lastCall = NoCall
  /\ \E header \in ParseHeaders :
       LET parsed == parseSignatureHeader(header)
       IN /\ lastCall' = [NoCall EXCEPT !.fn = "parseSignatureHeader",
                                        !.header = header, !.seq = 1]
          /\ outcome' = IF parsed.ok THEN "returned" ELSE parsed.code
          /\ returned' = IF parsed.ok
                           THEN [timestamp |-> parsed.timestamp,
                                 signature |-> parsed.signature]
                           ELSE NothingReturned
  /\ UNCHANGED <<verifier, clock, hmacComputed>>
  /\ UNCHANGED engineVars

\* new PushSubscriptionVerifier(secret): throws a plain Error for a secret
\* that is empty or missing
ConstructorCall ==
  /\ lastCall = NoCall
  /\ \E secret \in Secrets \cup BadSecrets :
       /\ lastCall' = [NoCall EXCEPT !.fn = "constructor", !.secret = secret,
                                     !.seq = 1]
       /\ verifier' = IF Falsy(secret) THEN verifier ELSE [secret |-> secret]
       /\ outcome' = IF Falsy(secret) THEN "Error" ELSE "constructed"
  /\ UNCHANGED <<clock, returned, hmacComputed>>
  /\ UNCHANGED engineVars

\* verifyPushSubscriptionSignature(secret, header, body, options)
VerifyPushSubscriptionSignatureCall ==
  /\ lastCall = NoCall
  /\ \E secret \in Secrets \cup BadSecrets, body \in Bodies,
        options \in VerificationOptions \cup {NullOptions} :
       \E header \in ConvenienceHeaders(secret) :
         /\ lastCall' = [NoCall EXCEPT
                           !.fn = "verifyPushSubscriptionSignature",
                           !.secret = secret, !.header = header,
                           !.body = body, !.options = options, !.seq = 1]
         /\ outcome' = verifyPushSubscriptionSignature(secret, header, body,
                                                       options)
         /\ hmacComputed' = (~Falsy(secret)
                              /\ verifySignatureRun(secret, header, body,
                                                    options).hmac)
  /\ UNCHANGED <<verifier, clock, returned>>
  /\ UNCHANGED engineVars

\* verifyPushSubscriptionSignatureSafe(secret, header, body, options)
VerifyPushSubscriptionSignatureSafeCall ==
  /\ lastCall = NoCall
  /\ \E secret \in Secrets \cup BadSecrets, body \in Bodies,
        options \in VerificationOptions \cup {NullOptions} :
       \E header \in ConvenienceHeaders(secret) :
         /\ lastCall' = [NoCall EXCEPT
                           !.fn = "verifyPushSubscriptionSignatureSafe",
                           !.secret = secret, !.header = header,
                           !.body = body, !.options = options, !.seq = 1]
         /\ outcome' = verifyPushSubscriptionSignatureSafe(secret, header,
                                                           body, options)
         /\ hmacComputed' = (~Falsy(secret)
                              /\ verifySignatureRun(secret, header, body,
                                                    options).hmac)
  /\ UNCHANGED <<verifier, clock, returned>>
  /\ UNCHANGED engineVars

VerifierNext ==
  \/ VerifySignatureCall
  \/ \E o \in VerificationOptions : VerifyAgain(o)
  \/ IsTimestampValidCall
  \/ IsTimestampValidAgain
  \/ ParseSignatureHeaderCall
  \/ ConstructorCall
  \/ VerifyPushSubscriptionSignatureCall
  \/ VerifyPushSubscriptionSignatureSafeCall

VerifierSpec == VerifierInit /\ [][VerifierNext]_vars

TypeOK ==
  /\ running \in BOOLEAN
  /\ Len(subscribers) <= MaxSubscribers
  /\ Len(loops) <= MaxLoops
  /\ \A l \in DOMAIN loops :
       loops[l].pc \in {"pulling", "handling", "acking", "backoff",
                        "errorBackoff", "done"}

\* ------------------------------------------------- vocabulary of the claims
\* the events the service has handed out
DeliveredEvents ==
  UNION {{Event(i, p[1], p[2]) : i \in 1..delivered[p]} : p \in DOMAIN delivered}

\* acknowledge requests for an event among the requests sent
AcksIn(sent, ev) == CopiesIn(EventAck(ev), sent)
AcksFor(ev) == AcksIn(acked, ev)

\* handler invocations with an event among the invocations made
CallsIn(made, ev) ==
  Sum([c \in BagToSet(made) |-> IF c.event = ev THEN made[c] ELSE 0],
      BagToSet(made))
CallsFor(ev) == CallsIn(handled, ev)

Succeeded(ev) == [event |-> ev, ok |-> TRUE] \in results
Failed(ev) == [event |-> ev, ok |-> FALSE] \in results

\* loop l was resumed by the step
Resumed(l) == loops'[l] # loops[l]

\* the step made no handler invocation and sent no acknowledge
NoCallNoAck == handled' = handled /\ acked' = acked

\* the step took loop l through `while (this._running)`
NextIterationOf(l) ==
  /\ running => loops'[l].pc = "pulling"
  /\ ~running => loops'[l].pc = "done"

\* ------------------------------------------------------------------ claims
\* C1: an event a loop pulled is acknowledged if and only if its handler
\* invocation completed successfully, and by the loop that handled it; an
\* event whose handler failed has no acknowledge.
C1_AckIffHandlerSucceeded ==
  /\ \A ev \in DeliveredEvents :
       /\ (AcksFor(ev) >= 1) <=> Succeeded(ev)
       /\ Failed(ev) => AcksFor(ev) = 0
  /\ \A l \in DOMAIN loops :
       /\ loops[l].pc = "handling" => AcksFor(loops[l].event) = 0
       /\ loops[l].pc = "acking" => Succeeded(loops[l].event)
  /\ BagToSet(acked) \subseteq {EventAck(ev) : ev \in DeliveredEvents}

C1_Witness ==
  \E e1 \in DeliveredEvents, e2 \in DeliveredEvents :
    /\ Succeeded(e1) /\ AcksFor(e1) = 1
    /\ Failed(e2) /\ AcksFor(e2) = 0

\* an event is dropped when no loop holds it and it was never acknowledged
HeldOrAcked(ev) ==
  \/ AcksFor(ev) = 1 /\ \A l \in DOMAIN loops : loops[l].pc = "handling"
                                                 => loops[l].event # ev
  \/ /\ AcksFor(ev) = 0
     /\ Cardinality({l \in DOMAIN loops :
                       loops[l].pc = "handling" /\ loops[l].event = ev}) = 1

\* C2: with handlers and a service that never fail and a service that hands
\* each event to one puller, no event is acknowledged twice, none is
\* dropped, and while the engine runs no loop returns, however often a pull
\* is answered with no content.
C2_ExactlyOnce ==
  /\ [](\A ev \in DeliveredEvents : AcksFor(ev) <= 1 /\ HeldOrAcked(ev))
  /\ [](BagToSet(acked) \subseteq {EventAck(ev) : ev \in DeliveredEvents})
  /\ [][\A l \in DOMAIN loops :
          (running /\ loops[l].pc # "done") => loops'[l].pc # "done"]_vars

C2_Witness ==
  /\ running
  /\ HandedOut = NumEvents
  /\ \A ev \in DeliveredEvents : AcksFor(ev) = 1
  /\ Len(loops) = 2
  /\ loops[1].handler = loops[2].handler
  /\ loops[1].pc = "backoff" /\ loops[2].pc = "pulling"

\* every event the service holds has been handed out and acknowledged
AllEventsAcked ==
  /\ HandedOut = NumEvents
  /\ \A ev \in DeliveredEvents : CallsFor(ev) = 1 /\ AcksFor(ev) = 1

\* C3: if the engine stays running, its loops are scheduled and pull,
\* handler and acknowledge return successfully, every event the service
\* holds for the pulled topic/subscriptions is eventually handled and
\* acknowledged.
C3_EventuallyAcked ==
  <>[]running => <>[](activeLoops # <<>> => AllEventsAcked)

C3_Witness ==
  /\ running
  /\ activeLoops # <<>>
  /\ AllEventsAcked

\* C4: an event whose handler failed is never acknowledged, every event
\* whose handler succeeded is acknowledged, and the loop that saw the
\* failure issues its next pull.
C4_HandlerFailureIsolated ==
  /\ [](\A ev \in DeliveredEvents :
          /\ Failed(ev) => AcksFor(ev) = 0
          /\ Succeeded(ev) => AcksFor(ev) = 1)
  /\ [][\A l \in DOMAIN loops :
          (loops[l].pc = "handling" /\ Resumed(l) /\ loops'[l].pc # "acking")
            => /\ HandlerErrorReport(loops[l]) \in reported'
               /\ acked' = acked
               /\ running => loops'[l].pc = "pulling"]_vars

\* a loop handles a later event of the topic/subscription of an event whose
\* handler failed in the same registration
C4_Witness ==
  \E l \in DOMAIN loops, e1 \in DeliveredEvents :
    /\ Failed(e1) /\ AcksFor(e1) = 0
    /\ loops[l].pc = "acking"
    /\ loops[l].event.topic = e1.topic
    /\ loops[l].event.id > e1.id
    /\ [handler |-> loops[l].handler, event |-> e1] \in BagToSet(handled)

\* C5: a start() call made while the engine runs throws "Subscriber is
\* already running" and changes nothing: the flag stays true, no loop is
\* launched, the active loops and the pending start() calls are untouched.
C5_StartWhileRunningRejected ==
  [][running =>
       /\ Len(loops') = Len(loops)
       /\ activeLoops' = activeLoops
       /\ Len(startCalls') = Len(startCalls)
       /\ startError' \in {startError, "Subscriber is already running"}
       /\ startError' # startError =>
            /\ running'
            /\ UNCHANGED <<subscribers, perSubscriptionProcessors, loops,
                           startCalls, delivered, handled, results, acked,
                           reported>>]_vars

C5_Witness ==
  /\ running
  /\ startError = "Subscriber is already running"
  /\ \E l \in DOMAIN loops : loops[l].pc = "handling"
  /\ \E c \in DOMAIN startCalls : startCalls[c].status = "pending"

\* C6: a start() call has resolved only if every loop it launched has
\* returned.
C6_StartResolvesAfterLoops ==
  \A c \in DOMAIN startCalls :
    startCalls[c].status = "resolved"
      => \A l \in startCalls[c].loops : loops[l].pc = "done"

C6_Witness ==
  \E c \in DOMAIN startCalls :
    /\ startCalls[c].status = "resolved"
    /\ Cardinality(startCalls[c].loops) = 2

\* every loop has returned and no start() call is pending
AllStopped ==
  /\ \A l \in DOMAIN loops : loops[l].pc = "done"
  /\ \A c \in DOMAIN startCalls : startCalls[c].status # "pending"

\* C7: once stop() has been called, if every awaited pull, handler call,
\* acknowledge and timer returns, then unless a start() follows every loop
\* eventually returns and every pending start() call resolves.
C7_StopDrains ==
  (~running) ~> (running \/ AllStopped)

C7_Witness ==
  /\ ~running
  /\ AllStopped
  /\ \E c \in DOMAIN startCalls :
       startCalls[c].status = "resolved" /\ startCalls[c].loops # {}
  /\ acked # EmptyBag

\* C8: stop() touches no loop, and a loop resumed after stop() finishes its
\* cycle: the event its pull returns is handed to the handler, a successful
\* handler is followed by the acknowledge, and a loop returns only from the
\* end of a cycle (handler failure, acknowledge or backoff), never from a
\* pull.
C8_StopDoesNotInterrupt ==
  [][/\ (running /\ ~running') => loops' = loops
     /\ \A l \in DOMAIN loops :
          /\ (~running /\ loops[l].pc = "pulling" /\ Resumed(l)
                /\ delivered' # delivered)
               => /\ loops'[l].pc = "handling"
                  /\ loops'[l].event \in DeliveredEvents'
                  /\ CallsIn(handled', loops'[l].event) = 1
          /\ (~running /\ loops[l].pc = "handling" /\ Resumed(l)
                /\ [event |-> loops[l].event, ok |-> TRUE] \in results')
               => /\ loops'[l].pc = "acking"
                  /\ loops'[l].event = loops[l].event
                  /\ AcksIn(acked', loops[l].event) = 1
          /\ (loops[l].pc # "done" /\ loops'[l].pc = "done")
               => loops[l].pc \in {"handling", "acking", "backoff",
                                   "errorBackoff"}]_vars

C8_Witness ==
  /\ ~running
  /\ \E l \in DOMAIN loops :
       loops[l].pc = "acking" /\ AcksFor(loops[l].event) = 1
  /\ \A c \in DOMAIN startCalls : startCalls[c].status = "pending"

C11_FailuresKeepLoopsRunning ==
  [][/\ running =>
          /\ \A l \in DOMAIN loops :
               loops[l].pc # "done" => loops'[l].pc # "done"
          /\ \A c \in DOMAIN startCalls :
               startCalls[c].status = "pending"
                 => startCalls'[c].status = "pending"
     /\ \A l \in DOMAIN loops :
          Resumed(l) => \A k \in DOMAIN loops \ {l} : loops'[k] = loops[k]]_vars

\* two loops and their start() call still going after a failed pull and a
\* failed acknowledge
C11_Witness ==
  /\ running
  /\ Len(loops) = 2
  /\ \A l \in DOMAIN loops : loops[l].pc \notin {"done", "errorBackoff"}
  /\ \A c \in DOMAIN startCalls : startCalls[c].status = "pending"
  /\ \E r \in reported : r.kind = "pulling"
  /\ \E r \in reported : r.kind = "handling"
  /\ \E ev \in DeliveredEvents : Succeeded(ev)
  /\ \A ev \in DeliveredEvents : ~Failed(ev)

\* C12: a loop starts a delay only from a pull (no content or failure);
\* from a resolved or rejected acknowledge and from a failed handler it
\* goes straight to the running check and the next pull.
C12_BackoffOnlyAfterPull ==
  [][\A l \in DOMAIN loops :
       /\ (Resumed(l) /\ loops'[l].pc \in {"backoff", "errorBackoff"})
            => loops[l].pc = "pulling"
       /\ (Resumed(l) /\ loops[l].pc = "acking") => NextIterationOf(l)
       /\ (Resumed(l) /\ loops[l].pc = "handling" /\ loops'[l].pc # "acking")
            => NextIterationOf(l)]_vars

\* the only loop handles its second event after the handler failed on the
\* first
C12_Witness ==
  /\ Len(loops) = 1
  /\ loops[1].pc = "handling"
  /\ loops[1].event.id = 2
  /\ \E ev \in DeliveredEvents : ev.id = 1 /\ Failed(ev)
  /\ \A r \in reported : r.kind = "handling"

\* loops awaiting a handler invocation
HandlingLoops == {l \in DOMAIN loops : loops[l].pc = "handling"}

\* C13: each handler invocation not yet completed is awaited by one loop;
\* a loop invokes the handler only from a pull and then awaits it, sends an
\* acknowledge only from the completion of its handler and then awaits it,
\* and pulls only once its previous await has returned.
C13_LoopIsSequential ==
  /\ [](BagCardinality(handled)
          = Cardinality(results) + Cardinality(HandlingLoops))
  /\ [][\A l \in DOMAIN loops :
          Resumed(l) =>
            /\ handled' # handled
                 => /\ loops[l].pc = "pulling"
                    /\ loops'[l].pc = "handling"
                    /\ handled' = handled (+)
                         SetToBag({[handler |-> loops[l].handler,
                                    event |-> loops'[l].event]})
            /\ acked' # acked
                 => /\ loops[l].pc = "handling"
                    /\ loops'[l].pc = "acking"
                    /\ loops'[l].event = loops[l].event
                    /\ [event |-> loops[l].event, ok |-> TRUE] \in results'
                    /\ acked' = acked (+) SetToBag({EventAck(loops[l].event)})
            /\ loops'[l].pc = "pulling"
                 => /\ loops[l].pc \in {"handling", "acking", "backoff",
                                        "errorBackoff"}
                    /\ NoCallNoAck]_vars

\* one loop awaits the acknowledge of its event while the other awaits its
\* handler
C13_Witness ==
  \E l \in DOMAIN loops, k \in DOMAIN loops :
    /\ loops[l].pc = "acking" /\ Succeeded(loops[l].event)
    /\ loops[k].pc = "handling"
    /\ AcksFor(loops[k].event) = 0

\* C14: an engine constructed without the option has one processor per
\* subscription, and a start() call that launches loops appends exactly
\* perSubscriptionProcessors loops for each registration in the list at
\* the call, in registration order, each with that registration's topic,
\* subscription and handler; these become the active loops.
C14_StartLaunchesPerRegistration ==
  /\ [](\A o \in SubscriberOptions :
          /\ ~o.given => Constructor(o) = 1
          /\ o.given => Constructor(o) = o.perSubscriptionProcessors)
  /\ [][(~running /\ running' /\ startError' = "none") =>
          LET n == IF subscribers = <<>> THEN 0 ELSE perSubscriptionProcessors
              base == Len(loops)
          IN /\ Len(loops') = base + Len(subscribers) * n
             /\ \A l \in DOMAIN loops : loops'[l] = loops[l]
             /\ activeLoops' = [i \in 1..(Len(subscribers) * n) |-> base + i]
             /\ \A i \in DOMAIN subscribers : \A j \in 1..n :
                  LET lp == loops'[base + (i - 1) * n + j]
                  IN /\ lp.topic = subscribers[i].topic
                     /\ lp.subscription = subscribers[i].subscription
                     /\ lp.handler = subscribers[i].handler
                     /\ lp.pc = "pulling"]_vars

\* one registration started with two processors
C14_Witness ==
  /\ Len(subscribers) = 1
  /\ perSubscriptionProcessors = 2
  /\ activeLoops = <<1, 2>>
  /\ \A l \in DOMAIN loops : loops[l].handler = subscribers[1].handler
  /\ Len(startCalls) = 1

\* assignments of true to _running so far: one by each start() call that
\* passed the guard
TrueWrites == Len(startCalls)

\* C15 as stated: the flag is written twice in an engine's lifetime, once
\* by start and once by stop, so it is set true at most once.
C15_WrittenExactlyTwice == TrueWrites <= 1

\* C15: the flag is written by start() and stop() only: it becomes true
\* only in a start() call that passed the guard, it becomes false only in
\* stop(), which changes nothing else, and neither a resumption of a loop
\* nor subscribe() changes it.
C15_OnlyStartAndStopWrite ==
  [][/\ (~running /\ running') => Len(startCalls') = Len(startCalls) + 1
     /\ (running /\ ~running')
          => UNCHANGED <<subscribers, perSubscriptionProcessors, activeLoops,
                         loops, startCalls, startError, delivered, handled,
                         results, acked, reported>>
     /\ (\E l \in DOMAIN loops : Resumed(l)) => running' = running
     /\ subscribers' # subscribers => running' = running]_vars

\* the engine runs again after a stop(): a loop of the first start() has
\* returned, a loop of the second handles an event
C15_Witness ==
  /\ running
  /\ TrueWrites = 2
  /\ \E l \in DOMAIN loops : loops[l].pc = "done"
  /\ \E l \in DOMAIN loops : loops[l].pc = "handling"

\* C16: every handler invocation passes an event that was handed out for
\* the topic and subscription of the handler's own registration, and every
\* acknowledge sent carries the topic, the subscription and the id of an
\* event whose handler, registered for that topic and subscription,
\* completed successfully; a loop awaiting an acknowledge awaits the one
\* for its own registration and the event it holds.
C16_AckAndHandlerMatchRegistration ==
  /\ \A c \in BagToSet(handled) :
       /\ c.handler \in DOMAIN subscribers
       /\ c.event \in DeliveredEvents
       /\ c.event.topic = subscribers[c.handler].topic
       /\ c.event.subscription = subscribers[c.handler].subscription
  /\ \A a \in BagToSet(acked) :
       \E c \in BagToSet(handled) :
         /\ Succeeded(c.event)
         /\ a = ackEvent(subscribers[c.handler].topic,
                         subscribers[c.handler].subscription, c.event.id)
  /\ \A l \in DOMAIN loops :
       loops[l].pc = "acking"
         => ackEvent(loops[l].topic, loops[l].subscription, loops[l].event.id)
              \in BagToSet(acked)

\* the handlers of two registrations on different topics have each had an
\* event acknowledged
C16_Witness ==
  \E c1 \in BagToSet(handled), c2 \in BagToSet(handled) :
    /\ c1.handler # c2.handler
    /\ c1.event.topic # c2.event.topic
    /\ AcksFor(c1.event) = 1
    /\ AcksFor(c2.event) = 1

\* ---------------------------------------- vocabulary of the verifier claims
\* the latest call was verifySignature on a header t=<timestamp>,v1=<...>
\* with options that are an object or left out
HeaderPrefix(timestamp) ==
  <<"t", "=">> \o NumberToString(timestamp) \o <<",", "v", "1", "=">>

VerifiedAt(timestamp) ==
  /\ lastCall.fn = "verifySignature"
  /\ ~IsNull(lastCall.options)
  /\ Len(lastCall.header) > Len(HeaderPrefix(timestamp))
  /\ SubSeq(lastCall.header, 1, Len(HeaderPrefix(timestamp)))
       = HeaderPrefix(timestamp)

\* the signature that header carried
SentSignature(timestamp) ==
  SubSeq(lastCall.header, Len(HeaderPrefix(timestamp)) + 1,
         Len(lastCall.header))

\* the tolerance of the latest call: its own option, or the default
OwnTolerance ==
  IF lastCall.options.given THEN lastCall.options.tolerance
  ELSE DefaultTolerance

\* now, in seconds
Now == clock \div 1000

Fresh(timestamp, tolerance) ==
  Now - tolerance <= timestamp /\ timestamp <= Now

\* C17: a header t=<timestamp>,v1=<calculateSignature(timestamp, body)>
\* with now - tolerance <= timestamp <= now verifies: verifySignature on
\* that header and body returns true.
C17_RoundTrip ==
  \A t \in Timestamps :
    (/\ VerifiedAt(t)
     /\ lastCall.header = SignatureHeader(t, calculateSignature(t, lastCall.body))
     /\ Fresh(t, OwnTolerance))
      => outcome = "true"

\* a header exactly as old as the tolerance of the call verifies
C17_Witness ==
  /\ lastCall.options.given
  /\ lastCall.options.tolerance = MaxTolerance
  /\ lastCall.header
       = SignatureHeader(Now - MaxTolerance,
                         calculateSignature(Now - MaxTolerance, lastCall.body))
  /\ outcome = "true"

\* C18 as stated: on a fresh header whose signature is not exactly
\* calculateSignature(timestamp, body) for the body verified (one
\* character of it changed, or the signature of another body) the call
\* throws INVALID_SIGNATURE, and it returns true for no such signature.
C18_TamperedNeverVerifies ==
  \A t \in Timestamps :
    (VerifiedAt(t) /\ SentSignature(t) # calculateSignature(t, lastCall.body))
      => /\ outcome # "true"
         /\ Fresh(t, OwnTolerance) => outcome = "INVALID_SIGNATURE"

\* C19: isTimestampValid(timestamp, tolerance) is true exactly when
\* timestamp <= now and now - timestamp <= tolerance; a timestamp in the
\* future is invalid and with tolerance 0 only timestamp = now is valid.
C19_TimestampWindow ==
  lastCall.fn = "isTimestampValid" =>
    /\ outcome = "true" <=> (/\ lastCall.timestamp <= Now
                             /\ Now - lastCall.timestamp <= lastCall.tolerance)
    /\ lastCall.timestamp > Now => outcome = "false"
    /\ lastCall.tolerance = 0 => (outcome = "true" <=> lastCall.timestamp = Now)

\* in the middle of a second the timestamp of that second is valid with
\* tolerance 0
C19_Witness ==
  /\ lastCall.fn = "isTimestampValid"
  /\ clock % 1000 # 0
  /\ lastCall.tolerance = 0
  /\ lastCall.timestamp = Now
  /\ outcome = "true"

\* C20: verifySignature on a well-formed header throws TIMESTAMP_TOO_OLD
\* whenever the timestamp is at most now - tolerance - 1 or at least
\* now + 1, and not for a timestamp inside the window, the tolerance being
\* the option of that very call, or 300 when the call gives none, whatever
\* the options of the call before.
C20_ToleranceOfTheCall ==
  \A t \in Timestamps :
    VerifiedAt(t) =>
      /\ (t <= Now - OwnTolerance - 1 \/ t >= Now + 1)
           => outcome = "TIMESTAMP_TOO_OLD"
      /\ Fresh(t, OwnTolerance) => outcome # "TIMESTAMP_TOO_OLD"

\* after a call with tolerance 0 a call without options accepts a header
\* as old as the default tolerance
C20_Witness ==
  /\ lastCall.seq = 2
  /\ lastCall.before = [given |-> TRUE, tolerance |-> 0]
  /\ ~lastCall.options.given
  /\ VerifiedAt(Now - DefaultTolerance)
  /\ outcome = "true"

\* the well-formed headers handed to the parser, by their timestamp
HeadersOf == [t \in ParseTimestamps |-> WellFormedHeaders(t, ParseSignature)]

Parsed == lastCall.fn = "parseSignatureHeader"

\* C21: parseSignatureHeader returns the same {timestamp, signature} for
\* a header with a t and a v1 element whatever whitespace is around the
\* comma-separated elements and whatever elements of unknown key stand
\* before, between or after them; no such header is rejected.
C21_WhitespaceAndUnknownKeysIgnored ==
  \A t \in ParseTimestamps :
    (Parsed /\ lastCall.header \in HeadersOf[t])
      => /\ outcome = "returned"
         /\ returned = [timestamp |-> t, signature |-> ParseSignature]

\* " t=1000 ,x=y, v1=abc " parses to {timestamp: 1000, signature: "abc"}
C21_Witness ==
  /\ Parsed
  /\ lastCall.header
       = JoinComma(JoinComma(<<" ">> \o TElement(NumberToString(Epoch))
                               \o <<" ">>,
                             <<"x", "=", "y">>),
                   <<" ">> \o VElement(ParseSignature) \o <<" ">>)
  /\ outcome = "returned"
  /\ returned = [timestamp |-> Epoch, signature |-> ParseSignature]

\* C22 as stated: parseSignatureHeader throws MISSING_SIGNATURE_HEADER for
\* an empty or missing header, INVALID_SIGNATURE_FORMAT for a header
\* without a t element, without a v1 element or with neither, and
\* INVALID_TIMESTAMP for a header whose t value is not an integer.
C22_EachMalformedHeaderHasItsCode ==
  Parsed =>
    /\ lastCall.header \in MissingHeaders
         => outcome = "MISSING_SIGNATURE_HEADER"
    /\ lastCall.header
         \in HeadersWithoutT \cup HeadersWithoutV1 \cup HeadersWithNeither
         => outcome = "INVALID_SIGNATURE_FORMAT"
    /\ lastCall.header \in HeadersWithNonIntegerT
         => outcome = "INVALID_TIMESTAMP"

\* C23 as stated: a constructor call with an empty or missing secret,
\* made directly or by verifyPushSubscriptionSignature, throws a typed
\* error whose code is MISSING_SECRET.
C23_MissingSecretIsTyped ==
  (/\ lastCall.fn \in {"constructor", "verifyPushSubscriptionSignature"}
   /\ Falsy(lastCall.secret))
    => outcome = "MISSING_SECRET"

\* C24 as stated: verifySignature returns true or throws a typed error
\* with one of the six codes; it returns false for no input and lets no
\* untyped error out.
C24_TrueOrTypedError ==
  lastCall.fn = "verifySignature"
    => outcome \in {"true"} \cup VerificationErrorCodes

\* C25: verifyPushSubscriptionSignatureSafe throws for no (secret,
\* header, body, options): it returns true exactly when
\* verifyPushSubscriptionSignature returns true on the same arguments,
\* and false whenever that one throws.
C25_SafeReturnsWhatRaisingReturns ==
  lastCall.fn = "verifyPushSubscriptionSignatureSafe" =>
    /\ outcome \in {"true", "false"}
    /\ outcome = "true"
         <=> verifyPushSubscriptionSignature(lastCall.secret, lastCall.header,
                                             lastCall.body, lastCall.options)
               = "true"

\* the safe variant returns false for a missing secret
C25_Witness ==
  /\ lastCall.fn = "verifyPushSubscriptionSignatureSafe"
  /\ Falsy(lastCall.secret)
  /\ verifyPushSubscriptionSignature(lastCall.secret, lastCall.header,
                                     lastCall.body, lastCall.options)
       = "Error"
  /\ outcome = "false"

\* a complete hex string of the length of the digest
CompleteHex(signature) ==
  /\ Len(signature) = 2 * DigestBytes
  /\ \A i \in DOMAIN signature :
       \E d \in DOMAIN HexDigits :
         signature[i] \in {HexDigits[d], UpperHexDigits[d]}

\* C26 as stated: on a fresh header whose signature is not a complete
\* hex string of the length of the digest (a character that is no hex
\* digit, characters after a correct prefix, odd or wrong length)
\* verifySignature throws INVALID_SIGNATURE.
C26_IncompleteHexIsMismatch ==
  \A t \in Timestamps :
    (/\ VerifiedAt(t)
     /\ Fresh(t, OwnTolerance)
     /\ ~CompleteHex(SentSignature(t)))
      => outcome = "INVALID_SIGNATURE"

\* C27 as stated: the value of an element is everything after its first
\* '=': the signature returned for v1=<value> is the whole value, also
\* when it has '=' in it.
C27_ValueKeptWhole ==
  \A v \in ValuesWithEquals :
    (/\ Parsed
     /\ lastCall.header
          = JoinComma(TElement(NumberToString(Epoch)), VElement(v)))
      => /\ outcome = "returned"
         /\ returned.signature = v

\* C28 as stated: a header whose t value is not a decimal integer from
\* end to end (empty, missing, letters, digits followed by something
\* else) throws INVALID_TIMESTAMP, in parseSignatureHeader and in
\* verifySignature, and no timestamp is returned for it.
C28_TimestampMustBeAllDigits ==
  (/\ lastCall.fn \in {"parseSignatureHeader", "verifySignature"}
   /\ ~IsNull(lastCall.options)
   /\ lastCall.header \in HeadersWithNonIntegerT)
    => /\ outcome = "INVALID_TIMESTAMP"
       /\ returned = NothingReturned

\* worker loops that have not returned
LiveLoops == {l \in DOMAIN loops : loops[l].pc # "done"}

\* C29 as stated: the loops still executing never number more than
\* registrations times perSubscriptionProcessors, whatever subscribe,
\* start and stop calls were made.
C29_LiveLoopsBounded ==
  Cardinality(LiveLoops)
    <= IF perSubscriptionProcessors < 0 THEN 0
       ELSE Len(subscribers) * perSubscriptionProcessors

\* C30 as stated: when the latest start() call has resolved the flag is
\* false, so that the next start() is accepted.
C30_ResolvedMeansNotRunning ==
  (startCalls # <<>> /\ startCalls[Len(startCalls)].status = "resolved")
    => ~running

\* C31 as stated: after a start() call that failed while creating the
\* loops the running flag is false, and no start() is rejected as already
\* running after it.
C31_FailedStartLeavesNotRunning ==
  (startCalls # <<>> /\ startCalls[Len(startCalls)].status = "rejected")
    => /\ ~running
       /\ startError # "Subscriber is already running"

\* a loop issued a pull in this step: it was launched, or it went on to
\* its next iteration
IssuesPull(l) ==
  /\ loops'[l].pc = "pulling"
  /\ l \in DOMAIN loops => loops[l].pc # "pulling"

\* C32: a loop issues a pull only in a step in which the running flag is
\* true, at its launch by start() or after the `while` test; after stop()
\* a loop that resumes issues no pull unless a start() came in between.
C32_PullsOnlyWhileRunning ==
  [][\A l \in DOMAIN loops' :
       /\ IssuesPull(l) => running'
       /\ (l \in DOMAIN loops /\ ~running /\ Resumed(l))
            => loops'[l].pc # "pulling"]_vars

\* after stop() every loop has returned although the service still has
\* events to hand out
C32_Witness ==
  /\ ~running
  /\ loops # <<>>
  /\ \A l \in DOMAIN loops : loops[l].pc = "done"
  /\ handled # EmptyBag
  /\ HandedOut < NumEvents

\* the acknowledge of an event was rejected: its handler succeeded and the
\* inner catch reported it
AckFailed(ev) ==
  /\ Succeeded(ev)
  /\ \E r \in reported :
       /\ r.kind = "handling"
       /\ r.id = ev.id
       /\ r.topic = ev.topic
       /\ r.subscription = ev.subscription

\* C33: every event handed to a loop has had exactly one handler
\* invocation and at most one acknowledge request; when the acknowledge
\* was rejected there is still one request and one invocation, and the
\* loop no longer holds the event.
C33_OneCallOneAckPerDelivery ==
  \A ev \in DeliveredEvents :
    /\ CallsFor(ev) = 1
    /\ AcksFor(ev) <= 1
    /\ AckFailed(ev)
         => /\ AcksFor(ev) = 1
            /\ \A l \in DOMAIN loops : loops[l].event # ev

\* after a rejected acknowledge the loop pulls again
C33_Witness ==
  /\ running
  /\ \E ev \in DeliveredEvents :
       /\ AckFailed(ev)
       /\ CallsFor(ev) = 1
       /\ AcksFor(ev) = 1
  /\ \A l \in DOMAIN loops : loops[l].pc = "pulling"

\* C34: subscribe() appends one registration and touches nothing else:
\* the registrations made before stay where they are, no loop is
\* launched or ended, the flag and the active loops are unchanged; loops
\* are launched by start() only, for the registrations made before it.
C34_SubscribeOnlyAppends ==
  [][/\ Len(subscribers') >= Len(subscribers)
     /\ SubSeq(subscribers', 1, Len(subscribers)) = subscribers
     /\ subscribers' # subscribers
          => /\ Len(subscribers') = Len(subscribers) + 1
             /\ UNCHANGED <<running, activeLoops, loops, startCalls>>
     /\ Len(loops') > Len(loops)
          => /\ ~running /\ running'
             /\ subscribers' = subscribers
             /\ \A l \in DOMAIN loops' :
                  loops'[l].handler \in DOMAIN subscribers]_vars

\* two registrations of the same topic and subscription, the second made
\* while the engine runs: the loops are those of the first
C34_Witness ==
  /\ running
  /\ Len(subscribers) = 2
  /\ subscribers[1].topic = subscribers[2].topic
  /\ subscribers[1].subscription = subscribers[2].subscription
  /\ subscribers[1].handler # subscribers[2].handler
  /\ LiveLoops # {}
  /\ \A l \in DOMAIN loops : loops[l].handler = 1

\* the latest call was verifySignature with options that are an object or
\* left out
Verified == lastCall.fn = "verifySignature" /\ ~IsNull(lastCall.options)

\* C35: verifySignature applies its checks in order and the first that
\* fails decides the error: a missing header gives
\* MISSING_SIGNATURE_HEADER, a header the parser rejects gives the
\* parser's code, a parsed timestamp outside the window gives
\* TIMESTAMP_TOO_OLD whatever the signature, and only then is the
\* signature compared; the HMAC is computed for a header that parsed and
\* is fresh, and for no other.
C35_FirstFailingCheckDecides ==
  Verified =>
    LET parsed == parseSignatureHeader(lastCall.header)
    IN /\ Falsy(lastCall.header) => outcome = "MISSING_SIGNATURE_HEADER"
       /\ (~parsed.ok /\ lastCall.header # NotAString)
            => outcome = parsed.code /\ ~hmacComputed
       /\ (parsed.ok /\ ~Fresh(parsed.timestamp, OwnTolerance))
            => outcome = "TIMESTAMP_TOO_OLD" /\ ~hmacComputed
       /\ (parsed.ok /\ Fresh(parsed.timestamp, OwnTolerance))
            => outcome \in {"true", "INVALID_SIGNATURE"} /\ hmacComputed

\* a header that is stale and wrongly signed is rejected as too old
C35_Witness ==
  /\ Verified
  /\ \E t \in Timestamps :
       /\ VerifiedAt(t)
       /\ ~Fresh(t, OwnTolerance)
       /\ SentSignature(t) \in Tampered(calculateSignature(t, lastCall.body))
  /\ outcome = "TIMESTAMP_TOO_OLD"
  /\ ~hmacComputed

\* the header of the latest call has that character twice
TwoOf(c) ==
  Cardinality({i \in DOMAIN lastCall.header : lastCall.header[i] = c}) = 2

\* C36: of several t elements and several v1 elements the last of each
\* is the one returned by the parser and the one verifySignature checks:
\* the call ends as it does on the header made of these two alone; a t
\* element without a number throws INVALID_TIMESTAMP wherever it stands,
\* also after a valid one.
C36_LastOccurrenceWins ==
  /\ (Parsed /\ TwoOf("t")) =>
       \A t1 \in ParseTimestamps, t2 \in ParseTimestamps,
          s1 \in ParseSignatures, s2 \in ParseSignatures :
         lastCall.header \in {Repeated(t1, t2, s1, s2),
                              Alternated(t1, t2, s1, s2)}
           => /\ outcome = "returned"
              /\ returned = [timestamp |-> t2, signature |-> s2]
  /\ (Verified /\ TwoOf("t")) =>
       \A t1 \in RepeatTimestamps, t2 \in RepeatTimestamps,
          s1 \in RepeatSignatures, s2 \in RepeatSignatures :
         lastCall.header = Repeated(t1, t2, s1, s2)
           => outcome = verifySignature(SignatureHeader(t2, s2),
                                        lastCall.body, lastCall.options)
  /\ (Parsed \/ Verified) =>
       (lastCall.header \in HeadersWithInvalidTAmongValid
          => outcome = "INVALID_TIMESTAMP")

\* a header whose first t is stale and whose first v1 is the signature of
\* that stale timestamp verifies by its second t and second v1
C36_Witness ==
  /\ Verified
  /\ lastCall.body = <<"x">>
  /\ lastCall.header
       = Repeated(Epoch - DefaultTolerance - 1, Epoch,
                  calculateSignature(Epoch - DefaultTolerance - 1, <<"x">>),
                  calculateSignature(Epoch, <<"x">>))
  /\ outcome = "true"

\* C37: a timestamp valid with one tolerance is valid at the same time
\* with every larger one; a timestamp rejected as too old is rejected at
\* every later time with the same tolerance; with a negative tolerance no
\* timestamp is valid.
C37_ValidityIsMonotone ==
  lastCall.fn = "isTimestampValid" =>
    /\ lastCall.tolerance < 0 => outcome = "false"
    /\ (/\ lastCall.seq = 2
        /\ lastCall.first.outcome = "true"
        /\ clock = lastCall.first.clock
        /\ lastCall.tolerance >= lastCall.first.tolerance)
         => outcome = "true"
    /\ (/\ lastCall.seq = 2
        /\ lastCall.first.outcome = "false"
        /\ (lastCall.first.clock \div 1000) - lastCall.timestamp
             > lastCall.first.tolerance
        /\ lastCall.tolerance = lastCall.first.tolerance)
         => outcome = "false"

\* a timestamp one second older than the tolerance allows is checked
\* again in the next second with the same tolerance
C37_Witness ==
  /\ lastCall.fn = "isTimestampValid"
  /\ lastCall.seq = 2
  /\ lastCall.first.outcome = "false"
  /\ (lastCall.first.clock \div 1000) - lastCall.timestamp
       = lastCall.first.tolerance + 1
  /\ lastCall.tolerance = lastCall.first.tolerance
  /\ Now > lastCall.first.clock \div 1000
  /\ outcome = "false"

C39_IdleStopIsHarmless ==
  /\ [][idleStops' # idleStops
          => /\ ~running /\ ~running'
             /\ UNCHANGED <<subscribers, perSubscriptionProcessors,
                            activeLoops, loops, startCalls, startError,
                            delivered, handled, results, acked, reported>>]_vars
  /\ [][(idleStops > 0 /\ ~running /\ running')
          => /\ Len(loops') = Len(loops)
                                + Len(subscribers) * perSubscriptionProcessors
             /\ \A l \in DOMAIN loops' \ DOMAIN loops :
                  loops'[l].pc = "pulling"]_vars
  /\ []((/\ idleStops > 0
         /\ ~running
         /\ Len(startCalls) < MaxStarts
         /\ Len(loops) + Len(subscribers) * perSubscriptionProcessors
              <= MaxLoops)
          => ENABLED Start)

\* stop() twice while not running, then start(): the loops run
C39_Witness ==
  /\ idleStops = 2
  /\ running
  /\ Len(startCalls) = 1
  /\ LiveLoops # {}
  /\ handled # EmptyBag
====
